---- MODULE Spec2Model ----
(***************************************************************************)
(* A model of s3mtowav.py: S3MParser.read_s3m (header, instrument and      *)
(* packed-pattern decoding of a byte buffer) and S3MRenderer.render (the   *)
(* order / row / output-sample loops and the per-channel mixer).           *)
(*                                                                         *)
(* Python lists and bytes are sequences read through At (0-based).  An     *)
(* optional integer is None (-1); an optional object (a row slot, a        *)
(* channel's instrument, an effect pair) is <<>> or a one-element (for the *)
(* effect: two-element) sequence.                                          *)
(*                                                                         *)
(* Numbers.  A volume v/64.0 is kept as its numerator v, and the mixed sum, *)
(* a multiple of 1/64, as its numerator: these floats are exact.  A        *)
(* frequency, an increment and a read position are IEEE 754 doubles with   *)
(* the rounding of every multiplication, division and addition the code    *)
(* performs.                                                               *)
(***************************************************************************)
EXTENDS Integers, Sequences, FiniteSets, TLC

VARIABLES
    pc,              \* where the conversion stands
    data,            \* the bytes of the file read_s3m reads
    sample_rate,     \* parser.sample_rate
    orders,          \* parser.orders
    instruments,     \* parser.instruments
    patterns,        \* parser.patterns
    channel_states,  \* renderer.channel_states
    output,          \* render's output list
    order_idx,       \* render: index in parser.orders
    row_idx,         \* render: index of the row in the pattern
    tick,            \* render: output samples emitted for the row so far
    prev_states,     \* history: channel_states before the last render step
    reads,           \* history: per channel, the index read by the last mix (None: no read)
    ended,           \* history: per channel, whether it ran off a sample without loop
    wrapped          \* history: per channel, the (position mod loop length, index) pairs of wrapped reads

vars == <<pc, data, sample_rate, orders, instruments, patterns, channel_states,
          output, order_idx, row_idx, tick, prev_states, reads, ended, wrapped>>

-----------------------------------------------------------------------------
(* Program constants *)

HeaderSize == 96
ParagraphSize == 16
InstrumentRecordSize == 24
Channels == 32
RowsPerPattern == 64
KeyOff == 254
Tempo == 125
Speed == 6
None == -1

-----------------------------------------------------------------------------
(* Python sequence primitives *)

Min(a, b) == IF a < b THEN a ELSE b
Max(a, b) == IF a > b THEN a ELSE b

At(s, i) == s[i + 1]

InRange(s, i) == 0 <= i /\ i < Len(s)

\* s[a:b] for 0 <= a: never raises, cut at the end of s
Slice(s, a, b) == SubSeq(s, a + 1, Min(b, Len(s)))

\* struct.unpack('<H', b) and ('<L', b) of a slice of the right size
U16(b) == b[1] + 256 * b[2]
U32(b) == b[1] + 256 * b[2] + 65536 * b[3] + 16777216 * b[4]

\* struct.unpack('<nH', b): the n little-endian words of b
UnpackWords(b, n) == [k \in 1..n |-> b[2 * k - 1] + 256 * b[2 * k]]

Repeat(x, n) == [k \in 1..n |-> x]

\* The list s, every element of it computed once
Evaluated(s) == s \o <<>>

-----------------------------------------------------------------------------
(* S3MParser.read_s3m: instruments *)

InstPtrExceeds(d, ptr) == ptr + InstrumentRecordSize > Len(d)

SampleExceeds(d, sample_ptr, sample_len) == sample_ptr + sample_len > Len(d)

\* bytes((b + 128) & 0xFF for b in sample_data)
ToUnsigned(sample_data) == [k \in 1..Len(sample_data) |-> (sample_data[k] + 128) % 256]

\* One iteration of the instrument loop.  status: "ok" (appended), "skip"
\* (continue, or a caught struct.error), "IndexError" (uncaught).  An instrument
\* is kept with the index idx of its pointer in the file's table (history: the
\* code's dict has no such key).
ParseInstrument(d, idx, ptr16) ==
    LET ptr == ptr16 * ParagraphSize
        skip == [status |-> "skip", inst |-> <<>>]
    IN  IF InstPtrExceeds(d, ptr) THEN skip
        ELSE IF ~InRange(d, ptr) THEN [status |-> "IndexError", inst |-> <<>>]
        ELSE IF At(d, ptr) # 1 THEN skip
        ELSE LET rec == Slice(d, ptr + 13, ptr + 24)
             IN  IF Len(rec) # 11 THEN skip
                 ELSE LET sample_ptr == U32(SubSeq(rec, 1, 4)) * ParagraphSize
                          sample_len == U16(SubSeq(rec, 5, 6))
                          loop_begin == U16(SubSeq(rec, 7, 8))
                          loop_end == U16(SubSeq(rec, 9, 10))
                          volume == rec[11]
                      IN  IF SampleExceeds(d, sample_ptr, sample_len) THEN skip
                          ELSE [status |-> "ok",
                                inst |-> <<[idx |-> idx,
                                            sample |-> ToUnsigned(Slice(d, sample_ptr, sample_ptr + sample_len)),
                                            length |-> sample_len,
                                            loop_begin |-> loop_begin,
                                            loop_end |-> loop_end,
                                            volume |-> volume]>>]

RECURSIVE ParseInstruments(_, _, _, _)
ParseInstruments(d, inst_ptrs, idx, acc) ==
    IF idx >= Len(inst_ptrs) THEN [status |-> "ok", list |-> acc]
    ELSE LET r == ParseInstrument(d, idx, At(inst_ptrs, idx))
         IN  IF r.status = "IndexError" THEN [status |-> "crash", list |-> acc]
             ELSE ParseInstruments(d, inst_ptrs, idx + 1, acc \o r.inst)

-----------------------------------------------------------------------------
(* S3MParser.read_s3m: packed patterns *)

EmptyRow == Repeat(<<>>, Channels)

\* The guards "if i + n > len(pattern_data)" before a field of n bytes
Incomplete(pd, i, n) == i + n > Len(pd)

Bit(what, mask) == (what \div mask) % 2 = 1

\* "if what & 32": note and instrument
ReadNote(pd, st, what) ==
    IF ~Bit(what, 32) THEN st
    ELSE IF Incomplete(pd, st.i, 2) THEN [st EXCEPT !.ctl = "break"]
    ELSE IF ~InRange(pd, st.i + 1) THEN [st EXCEPT !.ctl = "IndexError"]
    ELSE [st EXCEPT !.note = At(pd, st.i), !.instrument = At(pd, st.i + 1), !.i = st.i + 2]

\* "if what & 64": volume
ReadVolume(pd, st, what) ==
    IF st.ctl # "run" \/ ~Bit(what, 64) THEN st
    ELSE IF Incomplete(pd, st.i, 1) THEN [st EXCEPT !.ctl = "break"]
    ELSE IF ~InRange(pd, st.i) THEN [st EXCEPT !.ctl = "IndexError"]
    ELSE [st EXCEPT !.volume = At(pd, st.i), !.i = st.i + 1]

\* "if what & 128": effect
ReadEffect(pd, st, what) ==
    IF st.ctl # "run" \/ ~Bit(what, 128) THEN st
    ELSE IF Incomplete(pd, st.i, 2) THEN [st EXCEPT !.ctl = "break"]
    ELSE IF ~InRange(pd, st.i + 1) THEN [st EXCEPT !.ctl = "IndexError"]
    ELSE [st EXCEPT !.effect = <<At(pd, st.i), At(pd, st.i + 1)>>, !.i = st.i + 2]

RECURSIVE DecodeRow(_, _, _)

\* "{'note': note, 'instrument': instrument, 'volume': volume, 'effect': effect}"
Event(st) ==
    [note |-> st.note, instrument |-> st.instrument, volume |-> st.volume, effect |-> st.effect]

\* The end of one pass of the while loop: a "break" of a field read, or
\* "row[channel] = ..." and the next pass
AfterEvent(pd, row, channel, st) ==
    IF st.ctl = "IndexError" THEN [i |-> st.i, row |-> row, ok |-> FALSE, warned |-> FALSE]
    ELSE IF st.ctl = "break" THEN [i |-> st.i, row |-> row, ok |-> TRUE, warned |-> TRUE]
    ELSE DecodeRow(pd, st.i, [row EXCEPT ![channel + 1] = <<Event(st)>>])

\* "what = pattern_data[i]; i += 1; note = None; ..." and the three field reads
ReadEvent(pd, i, what) ==
    ReadEffect(pd, ReadVolume(pd, ReadNote(pd,
        [i |-> i + 1, ctl |-> "run", note |-> None, instrument |-> None,
         volume |-> None, effect |-> <<>>], what), what), what)

\* The "while i < len(pattern_data)" loop of one row, from index i.  warned:
\* the loop was left through one of the "Incomplete ..." warnings.
DecodeRow(pd, i, row) ==
    IF ~(i < Len(pd)) THEN [i |-> i, row |-> row, ok |-> TRUE, warned |-> FALSE]
    ELSE IF At(pd, i) = 0 THEN [i |-> i + 1, row |-> row, ok |-> TRUE, warned |-> FALSE]
    ELSE IF i + 1 > Len(pd) THEN [i |-> i, row |-> row, ok |-> TRUE, warned |-> TRUE]
    ELSE AfterEvent(pd, row, At(pd, i) % 32, ReadEvent(pd, i, At(pd, i)))

\* "for row_idx in range(64)": every row starts where the previous one stopped.
\* Rows first..first+n-1 from index i, decoded in order (the first half, then
\* the second half from where the first stopped).
RECURSIVE DecodeRowRange(_, _, _)
DecodeRowRange(pd, i, n) ==
    IF n = 1
    THEN LET r == DecodeRow(pd, i, EmptyRow)
         IN  [ok |-> r.ok, i |-> r.i, rows |-> IF r.ok THEN <<r.row>> ELSE <<>>,
              warned |-> <<r.warned>>]
    ELSE LET a == DecodeRowRange(pd, i, n \div 2)
         IN  IF ~a.ok THEN a
             ELSE LET b == DecodeRowRange(pd, a.i, n - n \div 2)
                  IN  [ok |-> b.ok, i |-> b.i, rows |-> a.rows \o b.rows,
                       warned |-> a.warned \o b.warned]

DecodeRows(pd) == DecodeRowRange(pd, 0, RowsPerPattern)

PatternPtrExceeds(d, ptr) == ptr + 2 > Len(d)

PatternDataExceeds(d, ptr, packed_len) == ptr + 2 + packed_len > Len(d)

\* One iteration of the pattern loop.  A pattern is kept with the index idx of
\* its pointer in the file's table and, per row, whether the row's loop was left
\* through a warning (both are history: the code keeps the rows only).
ParsePattern(d, idx, ptr16) ==
    LET ptr == ptr16 * ParagraphSize
        skip == [status |-> "skip", pat |-> <<>>]
    IN  IF PatternPtrExceeds(d, ptr) THEN skip
        ELSE LET hdr == Slice(d, ptr, ptr + 2)
             IN  IF Len(hdr) # 2 THEN skip
                 ELSE LET packed_len == U16(hdr)
                      IN  IF PatternDataExceeds(d, ptr, packed_len) THEN skip
                          ELSE LET r == DecodeRows(Slice(d, ptr + 2, ptr + 2 + packed_len))
                               IN  IF ~r.ok THEN [status |-> "IndexError", pat |-> <<>>]
                                   ELSE [status |-> "ok",
                                         pat |-> <<[idx |-> idx, rows |-> r.rows,
                                                    warned |-> r.warned]>>]

RECURSIVE ParsePatterns(_, _, _, _)
ParsePatterns(d, pattern_ptrs, idx, acc) ==
    IF idx >= Len(pattern_ptrs) THEN [status |-> "ok", list |-> acc]
    ELSE LET r == ParsePattern(d, idx, At(pattern_ptrs, idx))
         IN  IF r.status = "IndexError" THEN [status |-> "crash", list |-> acc]
             ELSE ParsePatterns(d, pattern_ptrs, idx + 1, acc \o r.pat)

-----------------------------------------------------------------------------
(* S3MParser.read_s3m: the whole parse *)

TooSmall(d) == Len(d) < HeaderSize

OrdersExceed(d, num_orders) == HeaderSize + num_orders > Len(d)

\* The check of the pointer tables without the pattern pointers
PointersExceed_Mut(d, pattern_ptr_start, num_patterns) == pattern_ptr_start > Len(d)

PointersExceed(d, pattern_ptr_start, num_patterns) ==
    pattern_ptr_start + 2 * num_patterns > Len(d)

\* status: "ok" (returns), "fatal" (raise Exception(...) of the parser),
\* "crash" (any other exception leaving read_s3m)
read_s3m(d) ==
    LET failed(s, o, ins) == [status |-> s, orders |-> o, instruments |-> ins, patterns |-> <<>>]
    IN  IF TooSmall(d) THEN failed("fatal", <<>>, <<>>)
        ELSE
        LET num_orders == U16(Slice(d, 28, 30))
            num_instruments == U16(Slice(d, 30, 32))
            num_patterns == U16(Slice(d, 32, 34))
            order_start == HeaderSize
        IN  IF OrdersExceed(d, num_orders) THEN failed("fatal", <<>>, <<>>)
            ELSE
            LET ords == Slice(d, order_start, order_start + num_orders)
                inst_ptr_start == order_start + num_orders
                pattern_ptr_start == inst_ptr_start + 2 * num_instruments
                inst_bytes == Slice(d, inst_ptr_start, inst_ptr_start + 2 * num_instruments)
                pat_bytes == Slice(d, pattern_ptr_start, pattern_ptr_start + 2 * num_patterns)
            IN  IF PointersExceed(d, pattern_ptr_start, num_patterns) THEN failed("fatal", ords, <<>>)
                ELSE IF Len(inst_bytes) # 2 * num_instruments \/ Len(pat_bytes) # 2 * num_patterns
                     THEN failed("crash", ords, <<>>)
                ELSE
                LET ins == ParseInstruments(d, UnpackWords(inst_bytes, num_instruments), 0, <<>>)
                IN  IF ins.status # "ok" THEN failed("crash", ords, ins.list)
                    ELSE
                    LET pats == ParsePatterns(d, UnpackWords(pat_bytes, num_patterns), 0, <<>>)
                    IN  [status |-> pats.status, orders |-> ords,
                         instruments |-> ins.list, patterns |-> pats.list]

-----------------------------------------------------------------------------
(* S3MRenderer *)

RECURSIVE Pow2(_)
Pow2(n) == IF n <= 0 THEN 1 ELSE 2 * Pow2(n - 1)

\* Python floats are IEEE 754 doubles.  A double >= 0 is [m, e] with value
\* m * 2^e: m is zero, or a natural of exactly MantissaBits bits held in four
\* limbs of LimbBits bits, least significant first.  Every operation below gives
\* the exact result rounded to nearest, ties to even, as float arithmetic does.
MantissaBits == 53
LimbBits == 15
Limb == Pow2(LimbBits)
PowTable == [k \in 0..LimbBits |-> Pow2(k)]
TwoTo(k) == PowTable[k]

\* Bit k of a natural is bit BitOf(k) of its limb LimbOf(k) + 1
LimbOf(k) == k \div LimbBits
BitOf(k) == k % LimbBits

\* 0.0, and the int 0 where the code adds a float to it
FZero == [m |-> <<0, 0, 0, 0>>, e |-> 0]
IsZero(x) == x.m = <<0, 0, 0, 0>>

LimbAt(n, i) == IF i >= 1 /\ i <= Len(n) THEN n[i] ELSE 0

\* The limbs of a sequence of limb sums or products, the carries propagated
RECURSIVE Carry(_, _, _)
Carry(s, i, c) ==
    IF i > Len(s) THEN <<c % Limb, c \div Limb>>
    ELSE <<(s[i] + c) % Limb>> \o Carry(s, i + 1, (s[i] + c) \div Limb)

\* n * 2^k, the carries not yet propagated
ShiftLeftRaw(n, k) ==
    Evaluated([i \in 1..(Len(n) + LimbOf(k)) |->
                 IF i <= LimbOf(k) THEN 0 ELSE n[i - LimbOf(k)] * TwoTo(BitOf(k))])

\* Bits s .. s + 59 of n
WindowLimb(n, s, j) ==
    (LimbAt(n, LimbOf(s) + j) \div TwoTo(BitOf(s)))
    + (LimbAt(n, LimbOf(s) + j + 1) % TwoTo(BitOf(s))) * TwoTo(LimbBits - BitOf(s))

Window(n, s) ==
    <<WindowLimb(n, s, 1), WindowLimb(n, s, 2), WindowLimb(n, s, 3), WindowLimb(n, s, 4)>>

\* The number of bits of a limb x, k a lower bound of it
RECURSIVE LimbLen(_, _)
LimbLen(x, k) == IF x < TwoTo(k) THEN k ELSE LimbLen(x, k + 1)

\* The number of bits of the limbs 1 .. i of n
RECURSIVE BitLenTo(_, _)
BitLenTo(n, i) ==
    IF i = 0 THEN 0
    ELSE IF n[i] # 0 THEN LimbBits * (i - 1) + LimbLen(n[i], 0)
    ELSE BitLenTo(n, i - 1)

\* The number of bits of n
BitLen(n) == BitLenTo(n, Len(n))

BitSet(n, k) == (LimbAt(n, LimbOf(k) + 1) \div TwoTo(BitOf(k))) % 2 = 1

\* No bit of n below bit k is set
LowZero(n, k) ==
    /\ \A i \in 1..Len(n) : i <= LimbOf(k) => n[i] = 0
    /\ LimbAt(n, LimbOf(k) + 1) % TwoTo(BitOf(k)) = 0

\* q + 1 for a mantissa q; the top limb holds the carry out of 53 bits
Incr(q) ==
    Evaluated([j \in 1..4 |->
                 IF \A i \in 1..(j - 1) : q[i] = Limb - 1
                 THEN IF j = 4 THEN q[j] + 1 ELSE (q[j] + 1) % Limb
                 ELSE q[j]])

Renorm(q, e) ==
    IF q[4] = TwoTo(MantissaBits - 3 * LimbBits)
    THEN [m |-> <<0, 0, 0, TwoTo(MantissaBits - 3 * LimbBits - 1)>>, e |-> e + 1]
    ELSE [m |-> q, e |-> e]

\* n * 2^e (plus less than 2^e if sticky) with the s low bits of n rounded away
RoundAt(n, e, sticky, s) ==
    IF s > 0 /\ BitSet(n, s - 1) /\ (sticky \/ ~LowZero(n, s - 1) \/ BitSet(n, s))
    THEN Renorm(Incr(Window(n, s)), e + s)
    ELSE [m |-> Window(n, s), e |-> e + s]

\* The double nearest to n * 2^e, n of at least MantissaBits bits (more, if sticky)
Round(n, e, sticky) == RoundAt(n, e, sticky, BitLen(n) - MantissaBits)

\* float(k) of an int 0 <= k < 2^30
FromNat(k) ==
    IF k = 0 THEN FZero
    ELSE Round(<<0, 0, 0, 0, k % Limb, k \div Limb>>, 0 - 4 * LimbBits, FALSE)

\* x * 2^k
FScale(x, k) == IF IsZero(x) THEN x ELSE [x EXCEPT !.e = @ + k]

\* x * c for an int 0 < c < 2^14
FMulNat(x, c) ==
    IF IsZero(x) THEN x
    ELSE Round(Carry(Evaluated([i \in 1..4 |-> x.m[i] * c]), 1, 0), x.e, FALSE)

DivStep(rest, qi) == [q |-> Append(rest.q, qi), r |-> rest.r]

\* Long division of the limbs i, i-1, .. 1 of n by d < 2^16, r the remainder so far
RECURSIVE DivLimbs(_, _, _, _)
DivLimbs(n, d, i, r) ==
    IF i = 0 THEN [q |-> <<>>, r |-> r]
    ELSE DivStep(DivLimbs(n, d, i - 1, (r * Limb + n[i]) % d), (r * Limb + n[i]) \div d)

DivRound(qr, e) == Round(qr.q, e, qr.r # 0)

\* x / d for an int 0 < d < 2^16
FDivNat(x, d) ==
    IF IsZero(x) THEN x
    ELSE DivRound(DivLimbs(<<0, 0>> \o x.m, d, 6, 0), x.e - 2 * LimbBits)

SumLimbs(a, b) == Evaluated([i \in 1..Len(a) |-> a[i] + LimbAt(b, i)])

\* hi + lo with hi.e >= lo.e
AddOrdered(hi, lo) ==
    IF hi.e - lo.e > MantissaBits + 1 THEN hi
    ELSE Round(Carry(SumLimbs(ShiftLeftRaw(hi.m, hi.e - lo.e), lo.m), 1, 0), lo.e, FALSE)

\* a + b
FAdd(a, b) ==
    IF IsZero(a) THEN b
    ELSE IF IsZero(b) THEN a
    ELSE IF a.e >= b.e THEN AddOrdered(a, b) ELSE AddOrdered(b, a)

\* int(x) for x < 2^31
Trunc(x) ==
    IF IsZero(x) \/ 0 - x.e >= MantissaBits THEN 0
    ELSE WindowLimb(x.m, 0 - x.e, 1) + Limb * WindowLimb(x.m, 0 - x.e, 2)
         + Limb * Limb * WindowLimb(x.m, 0 - x.e, 3)

\* note_table, in 1/100 Hz
note_table == <<26163, 27718, 29366, 31113, 32963, 34923, 36999, 39200, 41530, 44000, 46616, 49388>>

\* The double of the literal note_table[n]
TableEntry(n) == FDivNat(FromNat(At(note_table, n)), 100)

\* "def note_to_freq(self, note, c2spd=8363)"
c2spd == 8363

\* "freq = note_table[note] * (2 ** (octave - 4)); result = freq * c2spd / 8363"
note_to_freq(note) ==
    IF note = None \/ note = KeyOff THEN FZero
    ELSE IF note % 16 >= Len(note_table) THEN FZero
    ELSE FDivNat(FMulNat(FScale(TableEntry(note % 16), (note \div 16) - 4), c2spd), 8363)

\* The channel state S3MRenderer.__init__ gives every channel
InitialChannel ==
    [sample_pos |-> FZero, increment |-> FZero, volume |-> 0, playing |-> FALSE, instrument |-> <<>>]

ticks_per_row == Speed

samples_per_tick(rate) == rate \div ((Tempo * 4) \div 60)

SamplesPerRow(rate) == ticks_per_row * samples_per_tick(rate)

\* "inst_idx is not None and inst_idx < len(self.parser.instruments)",
\* with inst_idx = event['instrument'] - 1 if event['instrument'] else None
Resolves(event, insts) ==
    /\ event.instrument # None
    /\ event.instrument # 0
    /\ event.instrument - 1 < Len(insts)

\* A key-off that also rewinds the channel
KeyOffState_Mut(st) == [st EXCEPT !.playing = FALSE, !.sample_pos = FZero]

\* "self.channel_states[ch]['playing'] = False" of a key-off
KeyOffState(st) == [st EXCEPT !.playing = FALSE]

\* The body of "for ch, event in enumerate(row)" for one channel
Trigger(st, slot, insts, rate) ==
    IF slot = <<>> \/ slot[1].note = None THEN st
    ELSE LET event == slot[1]
         IN  IF event.note = KeyOff THEN KeyOffState(st)
             ELSE IF Resolves(event, insts)
                  THEN LET inst == At(insts, event.instrument - 1)
                       IN  [instrument |-> <<inst>>,
                            sample_pos |-> FZero,
                            increment |-> FDivNat(note_to_freq(event.note), rate),
                            volume |-> IF event.volume # None THEN event.volume ELSE inst.volume,
                            playing |-> TRUE]
                  ELSE st

ProcessRowStates(states, row, insts, rate) ==
    [c \in 1..Channels |-> Trigger(states[c], row[c], insts, rate)]

\* The wrap without the modulo
LoopPos_Mut(pos, inst) == inst.loop_begin + (pos - inst.loop_end)

\* "loop_begin + (pos - loop_end) % (loop_end - loop_begin)"
LoopPos(pos, inst) ==
    inst.loop_begin + ((pos - inst.loop_end) % (inst.loop_end - inst.loop_begin))

HasLoop(inst) == inst.loop_end > inst.loop_begin

\* "sample += (inst['sample'][pos] - 128) * state['volume']" and the advance;
\* the index raises IndexError outside the sample
ReadSample(st, inst, pos, rate) ==
    IF ~InRange(inst.sample, pos)
    THEN [ok |-> FALSE, state |-> st, contrib |-> 0, read |-> None]
    ELSE [ok |-> TRUE,
          state |-> [st EXCEPT !.sample_pos = FAdd(@, st.increment)],
          contrib |-> (At(inst.sample, pos) - 128) * st.volume,
          read |-> pos]

\* A channel sounds whenever it holds an instrument
Sounding_Mut(st) == st.instrument # <<>>

\* "if state['playing'] and state['instrument']"
Sounding(st) == st.playing /\ st.instrument # <<>>

\* A channel past the end of its sample is left playing
StopChannel_Mut(st) == st

\* "state['playing'] = False" of a channel past the end of a sample without loop
StopChannel(st) == [st EXCEPT !.playing = FALSE]

\* The body of "for ch in range(self.parser.channels)" for one channel
MixChannel(st, rate) ==
    IF ~Sounding(st) THEN [ok |-> TRUE, state |-> st, contrib |-> 0, read |-> None]
    ELSE LET pos == Trunc(st.sample_pos)
             inst == st.instrument[1]
         IN  IF pos >= inst.length
             THEN IF HasLoop(inst)
                  THEN ReadSample(st, inst, LoopPos(pos, inst), rate)
                  ELSE [ok |-> TRUE, state |-> StopChannel(st),
                        contrib |-> 0, read |-> None]
             ELSE ReadSample(st, inst, pos, rate)

NoReads == Repeat(None, Channels)

\* The sum of f over the channels of set S
RECURSIVE SumOver(_, _)
SumOver(f, S) ==
    IF S = {} THEN 0
    ELSE LET c == CHOOSE x \in S : \A y \in S : x <= y
         IN  f[c] + SumOver(f, S \ {c})

\* The channel loop of one output sample: the channels are mixed in order and
\* the loop stops at the first channel whose read raises, the channels before
\* it advanced.  A channel that is not sounding adds nothing to the sum.
Mix(states, rate) ==
    LET m == Evaluated([c \in 1..Channels |-> MixChannel(states[c], rate)])
        bad == {c \in 1..Channels : ~m[c].ok}
        stop == IF bad = {} THEN Channels + 1 ELSE CHOOSE c \in bad : \A e \in bad : c <= e
    IN  [ok |-> bad = {},
         states |-> [c \in 1..Channels |-> IF c < stop THEN m[c].state ELSE states[c]],
         sum |-> SumOver([c \in 1..Channels |-> m[c].contrib],
                         {c \in 1..Channels : c < stop /\ Sounding(states[c])}),
         reads |-> [c \in 1..Channels |-> IF c < stop THEN m[c].read ELSE None]]

\* int(x) of the rational a / b, b > 0: towards zero
IntOf(a, b) == IF a >= 0 THEN a \div b ELSE -((-a) \div b)

\* "max(min(int(sample * 128 + 128), 255), 0)", sample = sum / 64
ToPCM(sum) == Max(Min(IntOf(sum * 128 + 128 * 64, 64), 255), 0)

-----------------------------------------------------------------------------
(* The files: a header, the order list and the two pointer tables, two     *)
(* instrument records (paragraphs 7 and 9), sample data (paragraph 11) and *)
(* two packed patterns (paragraphs 12 and 14); 256 bytes, so paragraph 16  *)
(* is the first one past the end.                                          *)

LE16(n) == <<n % 256, (n \div 256) % 256>>
LE32(n) == <<n % 256, (n \div 256) % 256, (n \div 65536) % 256, (n \div 16777216) % 256>>

Pad(s, n) == s \o Repeat(0, n - Len(s))

RECURSIVE Words(_)
Words(ws) == IF ws = <<>> THEN <<>> ELSE LE16(Head(ws)) \o Words(Tail(ws))

Header(num_orders, num_instruments, num_patterns) ==
    Repeat(0, 28) \o LE16(num_orders) \o LE16(num_instruments) \o LE16(num_patterns)
    \o Repeat(0, 62)

InstRecord(type, sample_para, len, loop_begin, loop_end, volume) ==
    <<type>> \o Repeat(0, 12) \o LE32(sample_para) \o LE16(len) \o LE16(loop_begin)
    \o LE16(loop_end) \o <<volume>>

Packed(stream) == LE16(Len(stream)) \o stream

SampleBytes == <<1, 255, 3, 127, 128, 2, 254, 0, 5, 250, 64, 192, 0, 0, 0, 0>>

File(ords, inst_ptrs, pat_ptrs, rec0, rec1, pat0, pat1) ==
    Pad(Header(Len(ords), Len(inst_ptrs), Len(pat_ptrs)) \o ords \o Words(inst_ptrs)
        \o Words(pat_ptrs), 112)
    \o Pad(rec0, 32) \o Pad(rec1, 32) \o SampleBytes \o Pad(pat0, 32) \o Pad(pat1, 32)

Plain      == InstRecord(1, 11, 4, 0, 0, 64)
Soft       == InstRecord(1, 11, 3, 5, 2, 1)
LoopExact  == InstRecord(1, 11, 6, 2, 6, 32)
LoopInside == InstRecord(1, 11, 8, 2, 4, 16)
LoopPast   == InstRecord(1, 11, 4, 2, 6, 64)
EmptyLoop  == InstRecord(1, 11, 0, 0, 2, 64)
Empty      == InstRecord(1, 11, 0, 0, 0, 64)
NotSample  == InstRecord(2, 11, 4, 0, 0, 64)
SamplePast == InstRecord(1, 11, 200, 0, 0, 64)
LoopWhole  == InstRecord(1, 11, 16, 0, 16, 64)

MixInstTable == [ptrs |-> <<7, 9>>, rec0 |-> LoopInside, rec1 |-> Soft]

InstTables ==
    { [ptrs |-> <<7, 9>>,  rec0 |-> Plain,      rec1 |-> LoopExact],
      [ptrs |-> <<7, 9>>,  rec0 |-> NotSample,  rec1 |-> Plain],
      MixInstTable,
      [ptrs |-> <<7, 9>>,  rec0 |-> LoopPast,   rec1 |-> Plain],
      [ptrs |-> <<16, 9>>, rec0 |-> Plain,      rec1 |-> EmptyLoop],
      [ptrs |-> <<7, 9>>,  rec0 |-> SamplePast, rec1 |-> Empty],
      [ptrs |-> <<9, 7>>,  rec0 |-> LoopExact,  rec1 |-> Soft] }

\* row 0: ch0 C-0 instrument 1; ch1 A-0 instrument 2, volume 2
\* row 1: ch1 key-off; ch2 volume only
\* row 2: ch0 C-0 instrument 1; ch3 note, instrument 0; ch4 note, instrument 3;
\*        ch5 no field; ch1 semitone 12, instrument 2
Song1 ==
    <<32, 0, 1,  97, 9, 2, 2,  0,
      33, 254, 0,  66, 40,  0,
      32, 0, 1,  35, 0, 0,  36, 0, 3,  5,  33, 12, 2,  0>>

\* row 0: ch0 C-1 instrument 2 with an effect; ch6 D-0 instrument 1, volume 1
Song2 == <<160, 16, 2, 1, 2,  102, 2, 1, 1>>

\* row 0: ch0 C-0 instrument 1; row 1: a note cut short, then a stray byte
Song3 == <<32, 0, 1, 0, 32, 5>>

\* row 0: ch0 G#5 instrument 1, a note whose position sums round
Song4 == <<32, 88, 1>>

MainPatTable == [ptrs |-> <<12, 14>>, pat0 |-> Packed(Song1), pat1 |-> Packed(Song2)]

PatTables ==
    { MainPatTable,
      [ptrs |-> <<16, 12>>, pat0 |-> Packed(Song1), pat1 |-> Packed(Song2)],
      [ptrs |-> <<12, 14>>, pat0 |-> LE16(100) \o Song1, pat1 |-> Packed(Song2)],
      [ptrs |-> <<14, 12>>, pat0 |-> Packed(Song2), pat1 |-> Packed(Song3)] }

OrderLists == { <<0>>, <<1, 0>>, <<255, 1>> }

FileOf(o, it, pt) == File(o, it.ptrs, pt.ptrs, it.rec0, it.rec1, pt.pat0, pt.pat1)

\* Every instrument table under the main patterns, and every order list and
\* pattern table with the instruments of MixInstTable
Files ==
    { FileOf(<<0>>, it, MainPatTable) : it \in InstTables }
    \cup { FileOf(o, MixInstTable, pt) : o \in OrderLists, pt \in PatTables }
    \cup { FileOf(<<0>>, [ptrs |-> <<7, 9>>, rec0 |-> LoopWhole, rec1 |-> Soft],
                   [ptrs |-> <<12, 14>>, pat0 |-> Packed(Song4), pat1 |-> Packed(Song2)]) }

\* The buffers the parser alone is run on: every prefix of a whole file, a
\* header with its count fields set and a tail of zeros, and a file of one
\* pattern for every packed stream of at most MaxStreamLen bytes
MaxStreamLen == 3
MaxTail == 12

Prefix(f, n) == SubSeq(f, 1, n)

WholeFile ==
    File(<<1, 0>>, <<7, 9>>, <<12, 14>>, Plain, LoopExact, Packed(Song1), Packed(Song3))

StreamBytes == {0, 5, 32, 65, 130, 227}

Streams == UNION { [1..k -> StreamBytes] : k \in 0..MaxStreamLen }

StreamFile(stream) ==
    Pad(Header(0, 0, 1) \o Words(<<7>>), 112) \o Packed(stream)

HeaderCounts == {0, 1, 3, 65535}

ParseFiles ==
    { Prefix(WholeFile, n) : n \in 0..Len(WholeFile) }
    \cup { Header(no, ni, np) \o Repeat(0, t) :
             no \in HeaderCounts, ni \in HeaderCounts, np \in HeaderCounts, t \in 0..MaxTail }
    \cup { StreamFile(st) : st \in Streams }

\* The output rates the renders are run at
BaseRate == 8
Rates == {BaseRate, 2 * BaseRate}

-----------------------------------------------------------------------------
(* The conversion as a state machine *)

\* S3MParser(filename) and S3MRenderer(parser) as constructed
Constructed(d, rate) ==
    /\ pc = "start"
    /\ data = d
    /\ sample_rate = rate
    /\ orders = <<>>
    /\ instruments = <<>>
    /\ patterns = <<>>
    /\ channel_states = Repeat(InitialChannel, Channels)
    /\ output = <<>>
    /\ order_idx = 0
    /\ row_idx = 0
    /\ tick = 0
    /\ prev_states = Repeat(InitialChannel, Channels)
    /\ reads = NoReads
    /\ ended = Repeat("no", Channels)
    /\ wrapped = Repeat({}, Channels)

Init == \E d \in Files, rate \in Rates : Constructed(d, rate)

render_vars == <<channel_states, output, order_idx, row_idx, tick>>
history_vars == <<prev_states, reads, ended, wrapped>>

\* parser.read_s3m()
ReadS3M ==
    /\ pc = "start"
    /\ LET r == read_s3m(data)
       IN  /\ pc' = IF r.status = "ok" THEN "order" ELSE r.status
           /\ orders' = r.orders
           /\ instruments' = r.instruments
           /\ patterns' = r.patterns
    /\ UNCHANGED <<data, sample_rate, render_vars, history_vars>>

\* "if order >= len(self.parser.patterns): continue"
SkipOrder ==
    /\ pc = "order"
    /\ order_idx < Len(orders)
    /\ At(orders, order_idx) >= Len(patterns)
    /\ order_idx' = order_idx + 1
    /\ UNCHANGED <<pc, data, sample_rate, orders, instruments, patterns,
                   channel_states, output, row_idx, tick, history_vars>>

\* "pattern = self.parser.patterns[order]"
BeginPattern ==
    /\ pc = "order"
    /\ order_idx < Len(orders)
    /\ At(orders, order_idx) < Len(patterns)
    /\ pc' = "row"
    /\ row_idx' = 0
    /\ UNCHANGED <<data, sample_rate, orders, instruments, patterns,
                   channel_states, output, order_idx, tick, history_vars>>

CurrentPattern == At(patterns, At(orders, order_idx))

\* Where render stands once the row's samples are out: the next row, or the
\* next order after the last row
RowDone ==
    IF row_idx + 1 < Len(CurrentPattern.rows)
    THEN /\ pc' = "row"
         /\ row_idx' = row_idx + 1
         /\ order_idx' = order_idx
    ELSE /\ pc' = "order"
         /\ row_idx' = row_idx
         /\ order_idx' = order_idx + 1

\* "# Process row": the triggers of the row at row_idx
ProcessRow ==
    /\ pc = "row"
    /\ channel_states' = ProcessRowStates(channel_states, At(CurrentPattern.rows, row_idx),
                                        instruments, sample_rate)
    /\ tick' = 0
    /\ IF SamplesPerRow(sample_rate) > 0
       THEN pc' = "mix" /\ UNCHANGED <<row_idx, order_idx>>
       ELSE RowDone
    /\ prev_states' = channel_states
    /\ reads' = NoReads
    /\ ended' = [c \in 1..Channels |->
                   IF ended[c] # "no" /\ channel_states'[c].playing THEN "again" ELSE ended[c]]
    /\ wrapped' = [c \in 1..Channels |->
                   IF channel_states'[c].instrument # channel_states[c].instrument
                   THEN {} ELSE wrapped[c]]
    /\ UNCHANGED <<data, sample_rate, orders, instruments, patterns, output>>

\* History: the channel runs off the end of a sample without loop at this sample
RunsOff(st, rate) ==
    /\ st.playing
    /\ st.instrument # <<>>
    /\ st.instrument[1].loop_end <= st.instrument[1].loop_begin
    /\ Trunc(st.sample_pos) >= st.instrument[1].length

\* History: the (position mod loop length, index read) of a read at or past the
\* sample length
WrappedRead(st, rd, rate) ==
    IF /\ rd # None
       /\ st.instrument # <<>>
       /\ st.instrument[1].loop_end > st.instrument[1].loop_begin
       /\ Trunc(st.sample_pos) >= st.instrument[1].length
    THEN {<<Trunc(st.sample_pos)
              % (st.instrument[1].loop_end - st.instrument[1].loop_begin), rd>>}
    ELSE {}

\* One pass of "for _ in range(ticks_per_row * samples_per_tick)": one output
\* sample, or the IndexError of a read outside a sample
MixSample ==
    /\ pc = "mix"
    /\ tick < SamplesPerRow(sample_rate)
    /\ LET m == Mix(channel_states, sample_rate)
       IN  /\ channel_states' = m.states
           /\ reads' = m.reads
           /\ wrapped' = [c \in 1..Channels |->
                            wrapped[c] \cup WrappedRead(channel_states[c], m.reads[c], sample_rate)]
           /\ IF m.ok
              THEN /\ output' = Append(output, ToPCM(m.sum))
                   /\ tick' = tick + 1
                   /\ IF tick + 1 < SamplesPerRow(sample_rate)
                      THEN UNCHANGED <<pc, row_idx, order_idx>>
                      ELSE RowDone
              ELSE /\ pc' = "raised"
                   /\ UNCHANGED <<output, tick, row_idx, order_idx>>
    /\ prev_states' = channel_states
    /\ ended' = [c \in 1..Channels |->
                   IF pc' # "raised" /\ RunsOff(channel_states[c], sample_rate)
                   THEN "ended" ELSE ended[c]]
    /\ UNCHANGED <<data, sample_rate, orders, instruments, patterns>>

\* "return bytes(output)"
Return ==
    /\ pc = "order"
    /\ order_idx >= Len(orders)
    /\ pc' = "done"
    /\ UNCHANGED <<data, sample_rate, orders, instruments, patterns,
                   render_vars, history_vars>>

Next == ReadS3M \/ SkipOrder \/ BeginPattern \/ ProcessRow \/ MixSample \/ Return

Spec == Init /\ [][Next]_vars

\* The parser alone, on ParseFiles
InitParse == \E d \in ParseFiles : Constructed(d, BaseRate)

NextParse == ReadS3M

SpecParse == InitParse /\ [][NextParse]_vars

-----------------------------------------------------------------------------
(* The claims *)

Chans == 1..Channels

\* The truncated read position of a channel state
TruncPos(st) == Trunc(st.sample_pos)

\* The state is the one the row's trigger phase left
JustTriggered == pc = "mix" /\ tick = 0

\* The row whose triggers were applied last
TriggeredRow == At(CurrentPattern.rows, row_idx)

\* The slot carries a note other than key-off
IsNote(slot) == slot # <<>> /\ slot[1].note # None /\ slot[1].note # KeyOff

\* C1: render never fails: it never raises (no read outside a sample), for
\* every module the parser produces.
C1_RenderNeverFails == pc # "raised"

\* The three counts of the header of a buffer of at least 96 bytes
CountAt(d, off) == At(d, off) + 256 * At(d, off + 1)

FatalBuffer(d) ==
    \/ Len(d) < 96
    \/ 96 + CountAt(d, 28) > Len(d)
    \/ 96 + CountAt(d, 28) + 2 * CountAt(d, 30) + 2 * CountAt(d, 32) > Len(d)

\* C2: the parse fails with the parser's fatal error exactly when the buffer is
\* shorter than 96 bytes or the order list or the pointer tables pass its end;
\* on every other buffer it returns without raising.
C2_FatalIffTablesExceed ==
    pc # "start" => IF FatalBuffer(data) THEN pc = "fatal" ELSE pc = "order"

\* The parse returned although an instrument and a pattern were skipped.
C2_Witness ==
    /\ pc = "order"
    /\ ~FatalBuffer(data)
    /\ CountAt(data, 30) > Len(instruments)
    /\ CountAt(data, 32) > Len(patterns)
    /\ Len(instruments) > 0

\* The instruments decoded from entry k of the file's instrument-pointer table
DecodedAt(k) == {j \in 1..Len(instruments) : instruments[j].idx = k}

\* C3: a note with instrument reference k plays the instrument decoded from
\* entry k-1 of the file's pointer table, and triggers nothing if that entry was
\* skipped.
C3_InstrumentByFileIndex ==
    JustTriggered =>
        \A c \in Chans :
            (IsNote(TriggeredRow[c]) /\ TriggeredRow[c][1].instrument >= 1) =>
                LET dec == DecodedAt(TriggeredRow[c][1].instrument - 1)
                IN  IF dec = {}
                    THEN channel_states[c] = prev_states[c]
                    ELSE /\ channel_states[c].instrument = <<instruments[CHOOSE j \in dec : TRUE]>>
                         /\ channel_states[c].playing
                         /\ IsZero(channel_states[c].sample_pos)

\* C4: the pattern played for an order byte p is the one decoded from entry p
\* of the file's pattern-pointer table.
C4_PatternByFileIndex ==
    pc \in {"row", "mix"} => CurrentPattern.idx = At(orders, order_idx)

\* C5: once a row's decoding is cut short by a read past the end of the packed
\* stream, every later row is empty and nothing more is read.
C5_AbortLeavesLaterRowsEmpty ==
    \A k \in 1..Len(patterns) :
        \A r1, r2 \in 1..RowsPerPattern :
            (r1 < r2 /\ patterns[k].warned[r1]) =>
                (patterns[k].rows[r2] = EmptyRow /\ ~patterns[k].warned[r2])

\* The last mix read channel c of a looping instrument whose sample is at
\* least as long as the loop end, at a truncated position of at least p
LoopRead(c, p) ==
    /\ reads[c] # None
    /\ prev_states[c].instrument # <<>>
    /\ prev_states[c].instrument[1].loop_end > prev_states[c].instrument[1].loop_begin
    /\ prev_states[c].instrument[1].length >= prev_states[c].instrument[1].loop_end
    /\ TruncPos(prev_states[c]) >= p

InLoop(c) ==
    /\ prev_states[c].instrument[1].loop_begin <= reads[c]
    /\ reads[c] < prev_states[c].instrument[1].loop_end

\* C6 as stated: from the truncated position loopEnd on, every read index lies
\* in [loopBegin, loopEnd), for any sample length >= loopEnd.
C6_WrapAtLoopEnd ==
    \A c \in Chans :
        (prev_states[c].instrument # <<>>
            /\ LoopRead(c, prev_states[c].instrument[1].loop_end)) => InLoop(c)

\* C6 amended: the wrap happens from the sample length on: every read at a
\* truncated position >= length lies in [loopBegin, loopEnd), is loopBegin when
\* the position is loopEnd, and depends only on the position modulo
\* loopEnd - loopBegin.
C6_WrapAtLength ==
    \A c \in Chans :
        (prev_states[c].instrument # <<>>
            /\ LoopRead(c, prev_states[c].instrument[1].length)) =>
            /\ InLoop(c)
            /\ (TruncPos(prev_states[c]) = prev_states[c].instrument[1].loop_end
                    => reads[c] = prev_states[c].instrument[1].loop_begin)
            /\ \A a, b \in wrapped[c] : a[1] = b[1] => a[2] = b[2]

\* A looping channel read past its sample length a second time round.
C6_Witness ==
    \E c \in Chans :
        /\ prev_states[c].instrument # <<>>
        /\ LoopRead(c, prev_states[c].instrument[1].length
                          + prev_states[c].instrument[1].loop_end
                          - prev_states[c].instrument[1].loop_begin)
        /\ Cardinality(wrapped[c]) >= 2

\* C7 as stated: a channel that ran off a sample without loop never plays
\* again in the render.
C7_SilentForRestOfRender ==
    \A c \in Chans : ended[c] # "no" => ~channel_states[c].playing

\* C7 amended: a channel that ran off a sample without loop is stopped at that
\* output sample, reads nothing at it, and stays so until a later row triggers
\* the channel again.
C7_SilentUntilTriggered ==
    \A c \in Chans :
        ended[c] = "ended" => (~channel_states[c].playing /\ reads[c] = None)

\* A channel that ran off its sample is silent at a later output sample.
C7_Witness ==
    /\ pc = "mix"
    /\ tick >= 2
    /\ \E c \in Chans :
          /\ ended[c] = "ended"
          /\ ~prev_states[c].playing
          /\ prev_states[c].instrument # <<>>

\* The orders whose pattern index is in range
InRangeOrders == {k \in 1..Len(orders) : orders[k] < Len(patterns)}

\* C8: the output holds ticksPerRow * samplesPerTick samples for each of the
\* 64 rows of every in-range order, whatever the events.
C8_OutputLength ==
    pc \in {"done", "raised"} =>
        Len(output) = Cardinality(InRangeOrders) * 64 * Speed
                        * (sample_rate \div ((Tempo * 4) \div 60))

\* The last mix emitted a sample
Emitted == tick >= 1 /\ pc # "raised"

PlayingNow == {c \in Chans : channel_states[c].playing /\ channel_states[c].instrument # <<>>}

\* (sampleByte - 128) * channelVolume, in 1/64
Contribution(c) ==
    (At(prev_states[c].instrument[1].sample, reads[c]) - 128) * prev_states[c].volume

\* round(a / b), b > 0
RoundDiv(a, b) == (2 * a + b) \div (2 * b)

\* C9: every output sample is clamp(round(sum * 128 + 128), 0, 255), the sum
\* taken over exactly the channels playing with an instrument at that sample,
\* and lies in 0..255.
C9_OutputSample ==
    Emitted =>
        /\ output[Len(output)] \in 0..255
        /\ output[Len(output)] =
             Max(0, Min(255, RoundDiv(SumOver([c \in Chans |-> IF c \in PlayingNow THEN Contribution(c) ELSE 0],
                                              PlayingNow) * 128 + 128 * 64, 64)))

\* Two channels sound, a third holds an instrument and is off, and the sample
\* is not clamped.
C9_Witness ==
    /\ Emitted
    /\ Cardinality(PlayingNow) >= 2
    /\ \E c \in Chans : ~channel_states[c].playing /\ channel_states[c].instrument # <<>>
                          /\ ~IsZero(prev_states[c].sample_pos)
    /\ output[Len(output)] \notin {0, 128, 255}

\* C10: what the trigger phase of a row does to a channel.
C10_TriggerFrame ==
    JustTriggered =>
        \A c \in Chans :
            LET slot == TriggeredRow[c]
                old == prev_states[c]
                new == channel_states[c]
            IN  IF slot = <<>> \/ slot[1].note = None THEN new = old
                ELSE IF slot[1].note = KeyOff
                     THEN /\ ~new.playing
                          /\ new.sample_pos = old.sample_pos
                          /\ new.increment = old.increment
                          /\ new.volume = old.volume
                          /\ new.instrument = old.instrument
                ELSE IF slot[1].instrument = 0 \/ slot[1].instrument > Len(instruments)
                     THEN new = old
                ELSE /\ new.instrument = <<instruments[slot[1].instrument]>>
                     /\ IsZero(new.sample_pos)
                     /\ new.playing
                     /\ new.volume = IF slot[1].volume # None THEN slot[1].volume
                                      ELSE instruments[slot[1].instrument].volume

\* A row with a key-off on a channel that was playing and had advanced, and an
\* event without note.
C10_Witness ==
    /\ JustTriggered
    /\ \E c \in Chans :
          /\ TriggeredRow[c] # <<>>
          /\ TriggeredRow[c][1].note = KeyOff
          /\ prev_states[c].playing
          /\ ~IsZero(prev_states[c].sample_pos)
    /\ \E c \in Chans : TriggeredRow[c] # <<>> /\ TriggeredRow[c][1].note = None

====
